---- MODULE Spec2Model ----
(***************************************************************************)
(* Model of pr-review-service: the database layer (internal/database) and  *)
(* the error mapping of the HTTP handlers, over a PostgreSQL store whose   *)
(* transactions run at the default isolation level (READ COMMITTED).       *)
(*                                                                         *)
(* Every SQL statement is one step.  A statement reads the committed       *)
(* tables; the writes of a transaction are kept in the client's record     *)
(* (txPR, txIns, txDel) and reach the committed tables at tx.Commit().     *)
(* A statement that PostgreSQL would make wait for a row lock or for a     *)
(* unique-index entry of an uncommitted transaction is not enabled until   *)
(* that transaction has committed or rolled back.                          *)
(***************************************************************************)
EXTENDS Integers, Sequences, FiniteSets, TLC

\* ------------------------------------------------------------------ bounds
Users == {"A", "B", "C", "D"}
PRs == {"p1", "p2"}
Teams == {"core", "ops"}
Procs == {"c1", "c2"}

MaxOps == 2
MaxFailures == 1

\* ------------------------------------------------------- program constants
MaxReviewers == 2

ErrTeamExists == "TEAM_EXISTS"
ErrPRExists == "PR_EXISTS"
ErrPRMerged == "PR_MERGED"
ErrNotAssigned == "NOT_ASSIGNED"
ErrNoCandidate == "NO_CANDIDATE"
ErrNotFound == "NOT_FOUND"
StatusOpen == "OPEN"
StatusMerged == "MERGED"

\* what the handlers answer that is not a models.Err* code
InternalError == "INTERNAL_ERROR"
OK == "OK"
\* a store error that carries none of the models.Err* strings
RawErr == "raw"
\* the handler goroutine panicked: net/http drops the connection
Panic == "PANIC"

None == "none"

\* ------------------------------------------------------------------- time
\* A time.Time is a microsecond count (tick) and whether it has a
\* sub-microsecond part (sub).  NullTime is SQL NULL / a nil *time.Time.
NullTime == [tick |-> 0, sub |-> 0]

\* What a TIMESTAMP column keeps of a time.Time: microsecond resolution.
ToDB(t) == [tick |-> t.tick, sub |-> 0]

\* ----------------------------------------------------------- request data
CoreMembers ==
  << [user_id |-> "A", username |-> "alice", is_active |-> TRUE],
     [user_id |-> "B", username |-> "bob", is_active |-> TRUE],
     [user_id |-> "C", username |-> "carol", is_active |-> TRUE],
     [user_id |-> "D", username |-> "dave", is_active |-> FALSE] >>

OpsMembers ==
  << [user_id |-> "B", username |-> "bobby", is_active |-> TRUE],
     [user_id |-> "D", username |-> "dave", is_active |-> TRUE] >>

\* the requests the clients send
TeamInputs ==
  { [team_name |-> "core", members |-> CoreMembers],
    [team_name |-> "ops", members |-> OpsMembers] }

CreatePRRequests ==
  { <<"p1", "fix", "A">>, <<"p1", "feat", "B">>, <<"p2", "feat", "A">>, <<"p2", "fix", "B">> }

SetUserActiveRequests == {"C", "D"} \X BOOLEAN

ReassignRequests == PRs \X {"B", "D"}

GetUserReviewsRequests == {"B", "D"}

\* ------------------------------------------------------------ the tables
VARIABLES
  teams,        \* teams: the set of team_name keys
  users,        \* users: user_id -> row
  prs,          \* pull_requests: pull_request_id -> row
  revs,         \* pr_reviewers: number of rows per (pull_request_id, user_id)
  clock,        \* the wall clock read by time.Now()
  proc,         \* per client: the call in progress, its locals, its open tx
  resp,         \* per client: the answer to its last call
  nops,         \* calls started so far
  nfail         \* store failures injected so far

vars == <<teams, users, prs, revs, clock, proc, resp, nops, nfail>>
db == <<teams, users, prs, revs>>

NoRevs == [k \in PRs \X Users |-> 0]

\* SELECT user_id FROM pr_reviewers WHERE pull_request_id = p
getReviewersFromDB(rv, p) == {u \in Users : rv[<<p, u>>] > 0}

\* the isAssigned query answering true for every pair
IsAssigned_Always(rv, p, u) == TRUE

\* SELECT EXISTS(SELECT 1 FROM pr_reviewers WHERE pull_request_id AND user_id)
IsAssigned(rv, p, u) == rv[<<p, u>>] > 0

\* the same query without its condition is_active = true
ActiveTeammates_WithInactive(us, teamName, authorID) ==
  {u \in DOMAIN us : us[u].team_name = teamName /\ u # authorID}

\* the same query without its condition user_id != $2
ActiveTeammates_WithAuthor(us, teamName, authorID) ==
  {u \in DOMAIN us : us[u].team_name = teamName /\ us[u].is_active}

\* SELECT user_id FROM users WHERE team_name = $1 AND is_active AND user_id != $2
ActiveTeammates(us, teamName, authorID) ==
  {u \in DOMAIN us : /\ us[u].team_name = teamName
                     /\ us[u].is_active
                     /\ u # authorID}

\* INSERT INTO users ... ON CONFLICT (user_id) DO NOTHING
Upsert_KeepExisting(us, member, teamName) ==
  [u \in DOMAIN us \cup {member.user_id} |->
     IF u \in DOMAIN us
       THEN us[u]
       ELSE [username |-> member.username, team_name |-> teamName,
             is_active |-> member.is_active]]

\* INSERT INTO users ... ON CONFLICT (user_id) DO UPDATE SET username, team_name, is_active
Upsert(us, member, teamName) ==
  [u \in DOMAIN us \cup {member.user_id} |->
     IF u = member.user_id
       THEN [username |-> member.username, team_name |-> teamName,
             is_active |-> member.is_active]
       ELSE us[u]]

\* the loop over team.Members
RECURSIVE UpsertAll(_, _, _)
UpsertAll(us, members, teamName) ==
  IF members = << >> THEN us
  ELSE UpsertAll(Upsert(us, Head(members), teamName), Tail(members), teamName)

\* the orders in which a query without ORDER BY can return a set of rows
Orderings(S) ==
  {f \in [1..Cardinality(S) -> S] : \A i, j \in 1..Cardinality(S) : i # j => f[i] # f[j]}

\* rand.Perm(n), as a permutation of 1..n
Perms(n) == {f \in [1..n -> 1..n] : \A i, j \in 1..n : i # j => f[i] # f[j]}

selectRandomReviewers(candidates, max, perm) ==
  IF Len(candidates) <= max THEN candidates
  ELSE [i \in 1..max |-> candidates[perm[i]]]

Range(s) == {s[i] : i \in DOMAIN s}

\* ------------------------------------------------------------ the clients
EmptyBody ==
  [pull_request_id |-> None, pull_request_name |-> None, author_id |-> None,
   status |-> None, createdAt |-> NullTime, mergedAt |-> NullTime,
   assigned_reviewers |-> {}, replaced_by |-> None,
   user |-> [user_id |-> None, username |-> None, team_name |-> None, is_active |-> FALSE],
   list |-> << >>]

IdleProc ==
  [op |-> "idle", pc |-> "idle",
   pr |-> None, user |-> None, name |-> None, team |-> None, members |-> << >>,
   teamName |-> None, authorID |-> None, cur |-> {}, newReviewer |-> None,
   reviewers |-> << >>, i |-> 0, now |-> NullTime,
   row |-> [pull_request_name |-> None, author_id |-> None, status |-> None,
            created_at |-> NullTime, merged_at |-> NullTime],
   txPR |-> None, txIns |-> {}, txDel |-> {},
   contested |-> FALSE, present |-> FALSE, prior |-> EmptyBody]

NoResp ==
  [op |-> "idle", pr |-> None, user |-> None,
   err |-> None, code |-> None, body |-> EmptyBody, contested |-> FALSE, present |-> FALSE,
   prior |-> EmptyBody, undone |-> 0]

Idle(c) == proc[c].op = "idle"
CanStart(c) == Idle(c) /\ nops < MaxOps

\* the clients whose call of the same operation on the same pull request
\* and user is in progress
PeersOf(c, op, p, u) ==
  {d \in Procs \ {c} : p # None /\ proc[d].op = op /\ proc[d].pr = p /\ proc[d].user = u}

\* the handler of ReassignReviewer without its case for models.ErrPRMerged
HandlerCode_WithoutMerged(op, err) ==
  CASE err = OK -> OK
    [] err = Panic -> Panic
    [] op = "CreateTeam" /\ err = ErrTeamExists -> ErrTeamExists
    [] op = "GetTeam" /\ err = ErrNotFound -> ErrNotFound
    [] op = "SetUserActive" /\ err = ErrNotFound -> ErrNotFound
    [] op = "CreatePR" /\ err \in {ErrPRExists, ErrNotFound} -> err
    [] op = "MergePR" /\ err = ErrNotFound -> ErrNotFound
    [] op = "ReassignReviewer"
       /\ err \in {ErrNotAssigned, ErrNoCandidate, ErrNotFound} -> err
    [] OTHER -> InternalError

\* strings.Contains(err.Error(), models.Err*) in the handlers, in their order
HandlerCode(op, err) ==
  CASE err = OK -> OK
    [] err = Panic -> Panic
    [] op = "CreateTeam" /\ err = ErrTeamExists -> ErrTeamExists
    [] op = "GetTeam" /\ err = ErrNotFound -> ErrNotFound
    [] op = "SetUserActive" /\ err = ErrNotFound -> ErrNotFound
    [] op = "CreatePR" /\ err \in {ErrPRExists, ErrNotFound} -> err
    [] op = "MergePR" /\ err = ErrNotFound -> ErrNotFound
    [] op = "ReassignReviewer"
       /\ err \in {ErrPRMerged, ErrNotAssigned, ErrNoCandidate, ErrNotFound} -> err
    [] OTHER -> InternalError

\* ------------------------------------------------------- the transactions
\* the answer already given to a completed, successful MergePR of p (the
\* first call, for a call that is made after it)
PriorAnswer(op, p) ==
  LET done == {d \in Procs : resp[d].op = "MergePR" /\ resp[d].pr = p /\ resp[d].code = OK}
  IN IF op = "MergePR" /\ done # {} THEN resp[CHOOSE d \in done : TRUE].body ELSE EmptyBody

\* a client's call record when it enters the database method
NewCall(c, op, p, u, nm) ==
  [IdleProc EXCEPT !.op = op, !.pr = p, !.user = u, !.name = nm,
                   !.contested = (PeersOf(c, op, p, u) # {}),
                   !.present = (p \in DOMAIN prs),
                   !.prior = PriorAnswer(op, p)]

\* an UPDATE that sets the status and leaves merged_at as it is
MergedRow_StatusOnly(row, now) == [row EXCEPT !.status = StatusMerged]

\* an UPDATE that flips the status instead of setting it
MergedRow_Flip(row, now) ==
  [row EXCEPT !.status = IF row.status = StatusMerged THEN StatusOpen ELSE StatusMerged,
              !.merged_at = ToDB(now)]

\* UPDATE pull_requests SET status = 'MERGED', merged_at = now
MergedRow(row, now) == [row EXCEPT !.status = StatusMerged, !.merged_at = ToDB(now)]

\* pull_requests after tx.Commit() of the transaction of call q
CommitPRs(ps, q) ==
  IF q.txPR = "ins"
    THEN [p \in DOMAIN ps \cup {q.pr} |->
            IF p = q.pr
              THEN [pull_request_name |-> q.name, author_id |-> q.user,
                    status |-> StatusOpen, created_at |-> ToDB(q.now),
                    merged_at |-> NullTime]
              ELSE ps[p]]
  ELSE IF q.txPR = "upd"
    THEN [ps EXCEPT ![q.pr] = MergedRow(ps[q.pr], q.now)]
  ELSE ps

\* a commit that keeps the rows the transaction deleted
CommitRevs_InsertOnly(rv, q) ==
  [k \in PRs \X Users |-> rv[k] + (IF k \in q.txIns THEN 1 ELSE 0)]

\* pr_reviewers after tx.Commit() of the transaction of call q
CommitRevs(rv, q) ==
  [k \in PRs \X Users |->
     (IF k \in q.txDel THEN 0 ELSE rv[k]) + (IF k \in q.txIns THEN 1 ELSE 0)]

\* the deferred tx.Rollback(): the writes of the transaction are dropped
RollbackPRs(ps, q) == ps

\* reviewer rows written outside the transaction: they stay after a failure
RollbackRevs_Kept(rv, q) == CommitRevs(rv, q)

RollbackRevs(rv, q) == rv

\* pr_reviewers without its UNIQUE constraint
UniqueViolation_Absent(rv, q, k) == FALSE

\* UNIQUE(pull_request_id, user_id): the row k cannot be inserted by call q
UniqueViolation(rv, q, k) ==
  \/ rv[k] > 0 /\ k \notin q.txDel
  \/ k \in q.txIns

\* the insert of k by client c waits for another transaction's insert or
\* delete of the same key
WaitsForKey(c, k) ==
  \E d \in Procs \ {c} : k \in proc[d].txIns \cup proc[d].txDel

\* the write of the pull_requests row p by client c waits for another
\* transaction's uncommitted write of that row
WaitsForPR(c, p) ==
  \E d \in Procs \ {c} : proc[d].txPR # None /\ proc[d].pr = p

\* the clients' records when client c enters a method: the calls in progress
\* of the same operation on the same arguments are marked as contested
Marked(c, call) ==
  [d \in Procs |->
     IF Idle(c) /\ d \in PeersOf(c, call.op, call.pr, call.user)
       THEN [proc[d] EXCEPT !.contested = TRUE]
       ELSE proc[d]]

\* the method returns err/body to its handler; an open transaction is rolled back
Reply(c, call, err, body) ==
  /\ resp' = [resp EXCEPT ![c] =
                [op |-> call.op, pr |-> call.pr, user |-> call.user,
                 err |-> err, code |-> HandlerCode(call.op, err), body |-> body,
                 contested |-> call.contested, present |-> call.present,
                 prior |-> call.prior,
                 undone |-> Cardinality(call.txIns \cup call.txDel)
                             + (IF call.txPR = None THEN 0 ELSE 1)]]
  /\ proc' = [Marked(c, call) EXCEPT ![c] = IdleProc]

\* the method goes on to its next statement
Goto(c, call) ==
  /\ proc' = [Marked(c, call) EXCEPT ![c] = call]
  /\ resp' = [resp EXCEPT ![c] = IF Idle(c) THEN NoResp ELSE resp[c]]

PRBody(p, row, reviewers) ==
  [EmptyBody EXCEPT !.pull_request_id = p,
                    !.pull_request_name = row.pull_request_name,
                    !.author_id = row.author_id,
                    !.status = row.status,
                    !.createdAt = row.created_at,
                    !.mergedAt = row.merged_at,
                    !.assigned_reviewers = reviewers]

\* ------------------------------------------------------------- CreateTeam
CreateTeam_Exists(c, tin) ==
  /\ CanStart(c)
  /\ nops' = nops + 1
  /\ LET call == [NewCall(c, "CreateTeam", None, None, None)
                    EXCEPT !.team = tin.team_name, !.members = tin.members]
     IN IF tin.team_name \in teams
          THEN Reply(c, call, ErrTeamExists, EmptyBody)
          ELSE Goto(c, [call EXCEPT !.pc = "ct_insert"])
  /\ UNCHANGED <<db, clock, nfail>>

\* INSERT INTO teams, the upserts of the members and tx.Commit().  The writes
\* are blind (they depend on no earlier read of the transaction), they hold
\* their row locks up to the commit and no other statement sees them before
\* it, so they take effect together, in one step.  The insert fails on the
\* primary key when a concurrent CreateTeam has committed the same name.
CreateTeam_Insert(c) ==
  /\ proc[c].pc = "ct_insert"
  /\ LET q == proc[c] IN
     IF q.team \in teams
       THEN /\ Reply(c, q, RawErr, EmptyBody)
            /\ UNCHANGED <<teams, users>>
       ELSE /\ teams' = teams \cup {q.team}
            /\ users' = UpsertAll(users, q.members, q.team)
            /\ Reply(c, q, OK, [EmptyBody EXCEPT !.list = q.members])
  /\ UNCHANGED <<prs, revs, clock, nops, nfail>>

\* ---------------------------------------------------------------- GetTeam
GetTeam_Exists(c, teamName) ==
  /\ CanStart(c)
  /\ nops' = nops + 1
  /\ LET call == [NewCall(c, "GetTeam", None, None, None) EXCEPT !.team = teamName]
     IN IF teamName \notin teams
          THEN Reply(c, call, ErrNotFound, EmptyBody)
          ELSE Goto(c, [call EXCEPT !.pc = "gt_members"])
  /\ UNCHANGED <<db, clock, nfail>>

\* the rank of a username in the ORDER BY username of GetTeam
UsernameRank(n) ==
  CASE n = "alice" -> 1 [] n = "bob" -> 2 [] n = "bobby" -> 3
    [] n = "carol" -> 4 [] n = "dave" -> 5 [] OTHER -> 6

TeamMembers(us, teamName) ==
  LET M == {u \in DOMAIN us : us[u].team_name = teamName}
  IN {s \in Orderings(M) :
        \A i, j \in 1..Cardinality(M) :
           i < j => UsernameRank(us[s[i]].username) <= UsernameRank(us[s[j]].username)}

GetTeam_Members(c) ==
  /\ proc[c].pc = "gt_members"
  /\ \E s \in TeamMembers(users, proc[c].team) :
       Reply(c, proc[c], OK,
             [EmptyBody EXCEPT !.list =
                [i \in 1..Len(s) |-> [user_id |-> s[i], username |-> users[s[i]].username,
                                      is_active |-> users[s[i]].is_active]]])
  /\ UNCHANGED <<db, clock, nops, nfail>>

\* ---------------------------------------------------------- SetUserActive
SetUserActive(c, userID, isActive) ==
  /\ CanStart(c)
  /\ nops' = nops + 1
  /\ LET call == NewCall(c, "SetUserActive", None, userID, None) IN
     IF userID \in DOMAIN users
       THEN /\ users' = [users EXCEPT ![userID].is_active = isActive]
            /\ Reply(c, call, OK,
                     [EmptyBody EXCEPT !.user =
                        [user_id |-> userID, username |-> users[userID].username,
                         team_name |-> users[userID].team_name, is_active |-> isActive]])
       ELSE /\ users' = users
            /\ Reply(c, call, ErrNotFound, EmptyBody)
  /\ UNCHANGED <<teams, prs, revs, clock, nfail>>

\* --------------------------------------------------------- GetUserReviews
\* the same query with ORDER BY pr.created_at ASC
ReviewedPRs_Ascending(ps, rv, userID) ==
  LET M == {p \in DOMAIN ps : rv[<<p, userID>>] > 0}
  IN {s \in Orderings(M) :
        \A i, j \in 1..Cardinality(M) :
           i < j => ps[s[i]].created_at.tick <= ps[s[j]].created_at.tick}

\* ... JOIN pr_reviewers r ... WHERE r.user_id = $1 ORDER BY pr.created_at DESC
ReviewedPRs(ps, rv, userID) ==
  LET M == {p \in DOMAIN ps : rv[<<p, userID>>] > 0}
  IN {s \in Orderings(M) :
        \A i, j \in 1..Cardinality(M) :
           i < j => ps[s[i]].created_at.tick >= ps[s[j]].created_at.tick}

GetUserReviews(c, userID) ==
  /\ CanStart(c)
  /\ nops' = nops + 1
  /\ \E s \in ReviewedPRs(prs, revs, userID) :
       Reply(c, NewCall(c, "GetUserReviews", None, userID, None), OK,
             [EmptyBody EXCEPT !.list =
                [i \in 1..Len(s) |->
                   [pull_request_id |-> s[i],
                    pull_request_name |-> prs[s[i]].pull_request_name,
                    author_id |-> prs[s[i]].author_id,
                    status |-> prs[s[i]].status]]])
  /\ UNCHANGED <<db, clock, nfail>>

\* --------------------------------------------------------------- CreatePR
\* a CreatePR without the check of the id
PRExists_Unchecked(ps, prID) == FALSE

\* SELECT EXISTS(SELECT 1 FROM pull_requests WHERE pull_request_id = $1)
PRExists(ps, prID) == prID \in DOMAIN ps

CreatePR_Exists(c, prID, prName, authorID) ==
  /\ CanStart(c)
  /\ nops' = nops + 1
  /\ LET call == NewCall(c, "CreatePR", prID, authorID, prName) IN
     IF PRExists(prs, prID)
       THEN Reply(c, call, ErrPRExists, EmptyBody)
       ELSE Goto(c, [call EXCEPT !.pc = "cp_team"])
  /\ UNCHANGED <<db, clock, nfail>>

\* a query that answers the team "core" for a user it does not find
AuthorTeam_Default(us, authorID) ==
  IF authorID \in DOMAIN us THEN us[authorID].team_name ELSE "core"

\* SELECT team_name FROM users WHERE user_id = $1 (None: sql.ErrNoRows)
AuthorTeam(us, authorID) ==
  IF authorID \in DOMAIN us THEN us[authorID].team_name ELSE None

CreatePR_Team(c) ==
  /\ proc[c].pc = "cp_team"
  /\ LET q == proc[c] IN
     IF AuthorTeam(users, q.user) # None
       THEN Goto(c, [q EXCEPT !.teamName = AuthorTeam(users, q.user), !.pc = "cp_insert"])
       ELSE Reply(c, q, ErrNotFound, EmptyBody)
  /\ UNCHANGED <<db, clock, nops, nfail>>

\* now := time.Now() and INSERT INTO pull_requests; the insert waits for an
\* uncommitted write of the same key and fails on the primary key
CreatePR_Insert(c) ==
  /\ proc[c].pc = "cp_insert"
  /\ ~WaitsForPR(c, proc[c].pr)
  /\ clock' = clock + 1
  /\ LET q == proc[c] IN
     IF q.pr \in DOMAIN prs
       THEN Reply(c, q, RawErr, EmptyBody)
       ELSE \E s \in {0, 1} :
              Goto(c, [q EXCEPT !.now = [tick |-> clock + 1, sub |-> s],
                                !.txPR = "ins", !.pc = "cp_candidates"])
  /\ UNCHANGED <<db, nops, nfail>>

\* the candidates query and selectRandomReviewers(candidates, 2)
CreatePR_Candidates(c) ==
  /\ proc[c].pc = "cp_candidates"
  /\ LET q == proc[c]
         E == ActiveTeammates(users, q.teamName, q.user)
     IN \E candidates \in Orderings(E) :
          \E perm \in Perms(Cardinality(E)) :
            Goto(c, [q EXCEPT !.reviewers =
                                 selectRandomReviewers(candidates, MaxReviewers, perm),
                              !.i = 1, !.pc = "cp_reviewers"])
  /\ UNCHANGED <<db, clock, nops, nfail>>

\* one INSERT INTO pr_reviewers of the loop over reviewers
CreatePR_InsertReviewer(c) ==
  /\ proc[c].pc = "cp_reviewers"
  /\ proc[c].i <= Len(proc[c].reviewers)
  /\ LET q == proc[c]
         k == <<q.pr, q.reviewers[q.i]>>
     IN /\ ~WaitsForKey(c, k)
        /\ IF UniqueViolation(revs, q, k)
             THEN Reply(c, q, RawErr, EmptyBody)
             ELSE Goto(c, [q EXCEPT !.txIns = @ \cup {k}, !.i = @ + 1])
  /\ UNCHANGED <<db, clock, nops, nfail>>

CreatePR_Commit(c) ==
  /\ proc[c].pc = "cp_reviewers"
  /\ proc[c].i > Len(proc[c].reviewers)
  /\ LET q == proc[c] IN
     /\ prs' = CommitPRs(prs, q)
     /\ revs' = CommitRevs(revs, q)
     /\ Reply(c, q, OK,
              [EmptyBody EXCEPT !.pull_request_id = q.pr,
                                !.pull_request_name = q.name,
                                !.author_id = q.user,
                                !.status = StatusOpen,
                                !.assigned_reviewers = Range(q.reviewers),
                                !.createdAt = q.now])
  /\ UNCHANGED <<teams, users, clock, nops, nfail>>

\* ---------------------------------------------------------------- MergePR
MergePR_Select(c, prID) ==
  /\ CanStart(c)
  /\ nops' = nops + 1
  /\ LET call == NewCall(c, "MergePR", prID, None, None) IN
     IF prID \notin DOMAIN prs
       THEN Reply(c, call, ErrNotFound, EmptyBody)
       ELSE Goto(c, [call EXCEPT !.row = prs[prID],
                                 !.pc = IF prs[prID].status = StatusMerged
                                          THEN "mg_merged" ELSE "mg_update"])
  /\ UNCHANGED <<db, clock, nfail>>

\* the branch pr.Status == models.StatusMerged
MergePR_Merged(c) ==
  /\ proc[c].pc = "mg_merged"
  /\ LET q == proc[c] IN
     Reply(c, q, OK, PRBody(q.pr, q.row, getReviewersFromDB(revs, q.pr)))
  /\ UNCHANGED <<db, clock, nops, nfail>>

\* now := time.Now() and UPDATE pull_requests SET status, merged_at; the
\* update waits for an uncommitted update of the row and then applies to the
\* row as committed (its WHERE clause names the id only)
MergePR_Update(c) ==
  /\ proc[c].pc = "mg_update"
  /\ ~WaitsForPR(c, proc[c].pr)
  /\ clock' = clock + 1
  /\ \E s \in {0, 1} :
       Goto(c, [proc[c] EXCEPT !.now = [tick |-> clock + 1, sub |-> s],
                               !.txPR = "upd", !.pc = "mg_commit"])
  /\ UNCHANGED <<db, nops, nfail>>

MergePR_Commit(c) ==
  /\ proc[c].pc = "mg_commit"
  /\ prs' = CommitPRs(prs, proc[c])
  /\ Goto(c, [proc[c] EXCEPT !.txPR = None, !.pc = "mg_reviewers"])
  /\ UNCHANGED <<teams, users, revs, clock, nops, nfail>>

\* pr.Status, pr.MergedAt = &now, pr.AssignedReviewers = db.getReviewersFromDB
MergePR_Reviewers(c) ==
  /\ proc[c].pc = "mg_reviewers"
  /\ LET q == proc[c] IN
     Reply(c, q, OK,
           PRBody(q.pr, [q.row EXCEPT !.status = StatusMerged, !.merged_at = q.now],
                  getReviewersFromDB(revs, q.pr)))
  /\ UNCHANGED <<db, clock, nops, nfail>>

\* ------------------------------------------------------- ReassignReviewer
ReassignReviewer_Status(c, prID, oldUserID) ==
  /\ CanStart(c)
  /\ nops' = nops + 1
  /\ LET call == NewCall(c, "ReassignReviewer", prID, oldUserID, None) IN
     IF prID \notin DOMAIN prs THEN Reply(c, call, ErrNotFound, EmptyBody)
     ELSE IF prs[prID].status = StatusMerged THEN Reply(c, call, ErrPRMerged, EmptyBody)
     ELSE Goto(c, [call EXCEPT !.pc = "rr_assigned"])
  /\ UNCHANGED <<db, clock, nfail>>

ReassignReviewer_IsAssigned(c) ==
  /\ proc[c].pc = "rr_assigned"
  /\ LET q == proc[c] IN
     IF IsAssigned(revs, q.pr, q.user)
       THEN Goto(c, [q EXCEPT !.pc = "rr_team"])
       ELSE Reply(c, q, ErrNotAssigned, EmptyBody)
  /\ UNCHANGED <<db, clock, nops, nfail>>

\* SELECT u.team_name, pr.author_id FROM users u, pull_requests pr
ReassignReviewer_TeamAuthor(c) ==
  /\ proc[c].pc = "rr_team"
  /\ LET q == proc[c] IN
     IF q.user \in DOMAIN users /\ q.pr \in DOMAIN prs
       THEN Goto(c, [q EXCEPT !.teamName = users[q.user].team_name,
                              !.authorID = prs[q.pr].author_id,
                              !.pc = "rr_current"])
       ELSE Reply(c, q, RawErr, EmptyBody)
  /\ UNCHANGED <<db, clock, nops, nfail>>

ReassignReviewer_Current(c) ==
  /\ proc[c].pc = "rr_current"
  /\ Goto(c, [proc[c] EXCEPT !.cur = getReviewersFromDB(revs, proc[c].pr),
                             !.pc = "rr_candidates"])
  /\ UNCHANGED <<db, clock, nops, nfail>>

\* the candidates of a reassignment: the rows of the query that are not
\* in currentReviewers
ReassignCandidates(us, teamName, authorID, currentReviewers) ==
  ActiveTeammates(us, teamName, authorID) \ currentReviewers

\* the candidates query, the NO_CANDIDATE check and candidates[rand.IntN(len)]
ReassignReviewer_Candidates(c) ==
  /\ proc[c].pc = "rr_candidates"
  /\ LET q == proc[c]
         candidates == ReassignCandidates(users, q.teamName, q.authorID, q.cur)
     IN IF candidates = {}
          THEN Reply(c, q, ErrNoCandidate, EmptyBody)
          ELSE \E n \in candidates :
                 Goto(c, [q EXCEPT !.newReviewer = n, !.pc = "rr_delete"])
  /\ UNCHANGED <<db, clock, nops, nfail>>

\* DELETE FROM pr_reviewers WHERE pull_request_id = $1 AND user_id = $2; it
\* waits for an uncommitted delete of the row and deletes the rows it finds
\* (none is no error)
ReassignReviewer_Delete(c) ==
  /\ proc[c].pc = "rr_delete"
  /\ LET q == proc[c]
         k == <<q.pr, q.user>>
     IN /\ \A d \in Procs \ {c} : k \notin proc[d].txDel
        /\ Goto(c, [q EXCEPT !.txDel = IF revs[k] > 0 THEN {k} ELSE {},
                             !.pc = "rr_insert"])
  /\ UNCHANGED <<db, clock, nops, nfail>>

\* two transactions each wait for a key the other has written: PostgreSQL
\* aborts the statement of one of them
Deadlocked(c, k) ==
  \E d \in Procs \ {c} :
     /\ k \in proc[d].txIns \cup proc[d].txDel
     /\ proc[d].pc = "rr_insert"
     /\ <<proc[d].pr, proc[d].newReviewer>> \in proc[c].txIns \cup proc[c].txDel

\* INSERT INTO pr_reviewers (pull_request_id, user_id) VALUES ($1, newReviewer)
ReassignReviewer_Insert(c) ==
  /\ proc[c].pc = "rr_insert"
  /\ LET q == proc[c]
         k == <<q.pr, q.newReviewer>>
     IN /\ WaitsForKey(c, k) => Deadlocked(c, k)
        /\ IF WaitsForKey(c, k) \/ UniqueViolation(revs, q, k)
             THEN Reply(c, q, RawErr, EmptyBody)
             ELSE Goto(c, [q EXCEPT !.txIns = {k}, !.pc = "rr_commit"])
  /\ UNCHANGED <<db, clock, nops, nfail>>

ReassignReviewer_Commit(c) ==
  /\ proc[c].pc = "rr_commit"
  /\ revs' = CommitRevs(revs, proc[c])
  /\ Goto(c, [proc[c] EXCEPT !.txIns = {}, !.txDel = {}, !.pc = "rr_getpr"])
  /\ UNCHANGED <<teams, users, prs, clock, nops, nfail>>

\* db.GetPR: the pull_requests row
ReassignReviewer_GetPR(c) ==
  /\ proc[c].pc = "rr_getpr"
  /\ LET q == proc[c] IN
     IF q.pr \in DOMAIN prs
       THEN Goto(c, [q EXCEPT !.row = prs[q.pr], !.pc = "rr_getreviewers"])
       ELSE Reply(c, q, ErrNotFound, EmptyBody)
  /\ UNCHANGED <<db, clock, nops, nfail>>

\* db.GetPR: pr.AssignedReviewers = db.getReviewersFromDB, and the return
ReassignReviewer_GetReviewers(c) ==
  /\ proc[c].pc = "rr_getreviewers"
  /\ LET q == proc[c] IN
     Reply(c, q, OK,
           [PRBody(q.pr, q.row, getReviewersFromDB(revs, q.pr))
              EXCEPT !.replaced_by = q.newReviewer])
  /\ UNCHANGED <<db, clock, nops, nfail>>

\* ------------------------------------------------------- store failures
\* what the method returns when the statement at pc fails for a reason of the
\* store or of the context (connection loss, cancellation, deadlock abort)
FailureAt(pc) ==
  CASE pc = "cp_team" -> ErrNotFound
    [] pc = "rr_getpr" -> ErrNotFound
    [] pc \in {"mg_merged", "rr_current"} -> Panic
    [] pc \in {"mg_reviewers", "rr_getreviewers"} -> OK
    [] OTHER -> RawErr

\* what the method returns when its first statement (or BeginTx) fails
FailureAtStart(op) ==
  IF op \in {"SetUserActive", "MergePR", "ReassignReviewer"} THEN ErrNotFound ELSE RawErr

\* the answer of a method whose reviewers query failed after its commit:
\* getReviewersFromDB returns an empty list
BodyAfterFailure(q) ==
  CASE q.pc = "mg_reviewers" ->
         PRBody(q.pr, [q.row EXCEPT !.status = StatusMerged, !.merged_at = q.now], {})
    [] q.pc = "rr_getreviewers" ->
         [PRBody(q.pr, q.row, {}) EXCEPT !.replaced_by = q.newReviewer]
    [] OTHER -> EmptyBody

StmtFail(c) ==
  /\ ~Idle(c)
  /\ nfail < MaxFailures
  /\ nfail' = nfail + 1
  /\ prs' = RollbackPRs(prs, proc[c])
  /\ revs' = RollbackRevs(revs, proc[c])
  /\ Reply(c, proc[c], FailureAt(proc[c].pc), BodyAfterFailure(proc[c]))
  /\ UNCHANGED <<teams, users, clock, nops>>

StartFail(c, op, p, u) ==
  /\ CanStart(c)
  /\ nfail < MaxFailures
  /\ nfail' = nfail + 1
  /\ nops' = nops + 1
  /\ Reply(c, NewCall(c, op, p, u, None), FailureAtStart(op), EmptyBody)
  /\ UNCHANGED <<db, clock>>

\* ------------------------------------------------------------------- Init
NoUsers == [u \in {} |-> None]
NoPRs == [p \in {} |-> None]

\* the database before any request
EmptyDB ==
  [teams |-> {}, users |-> NoUsers, prs |-> NoPRs, revs |-> NoRevs, clock |-> 0]

\* the database after CreateTeam("core", CoreMembers)
CoreDB ==
  [EmptyDB EXCEPT !.teams = {"core"}, !.users = UpsertAll(NoUsers, CoreMembers, "core")]

\* the database after CreateTeam("core", CoreMembers) and CreatePR("p1", "fix", "A")
CorePRDB ==
  LET q == [IdleProc EXCEPT !.pr = "p1", !.name = "fix", !.user = "A",
                            !.now = [tick |-> 1, sub |-> 0], !.txPR = "ins",
                            !.txIns = {<<"p1", "B">>, <<"p1", "C">>}]
  IN [CoreDB EXCEPT !.prs = CommitPRs(NoPRs, q), !.revs = CommitRevs(NoRevs, q),
                    !.clock = 1]

\* the same, after SetUserActive("D", true)
CorePRActiveDB ==
  [CorePRDB EXCEPT !.users = [CorePRDB.users EXCEPT !["D"].is_active = TRUE]]

Seeds == {EmptyDB, CoreDB, CorePRDB, CorePRActiveDB}

Init ==
  /\ \E seed \in Seeds :
       /\ teams = seed.teams
       /\ users = seed.users
       /\ prs = seed.prs
       /\ revs = seed.revs
       /\ clock = seed.clock
  /\ proc = [c \in Procs |-> IdleProc]
  /\ resp = [c \in Procs |-> NoResp]
  /\ nops = 0
  /\ nfail = 0

\* ------------------------------------------------------------------- Next
Next ==
  \E c \in Procs :
     \/ \E tin \in TeamInputs : CreateTeam_Exists(c, tin)
     \/ CreateTeam_Insert(c)
     \/ \E t \in Teams : GetTeam_Exists(c, t)
     \/ GetTeam_Members(c)
     \/ \E r \in SetUserActiveRequests : SetUserActive(c, r[1], r[2])
     \/ \E u \in GetUserReviewsRequests : GetUserReviews(c, u)
     \/ \E r \in CreatePRRequests : CreatePR_Exists(c, r[1], r[2], r[3])
     \/ CreatePR_Team(c)
     \/ CreatePR_Insert(c)
     \/ CreatePR_Candidates(c)
     \/ CreatePR_InsertReviewer(c)
     \/ CreatePR_Commit(c)
     \/ \E p \in PRs : MergePR_Select(c, p)
     \/ MergePR_Merged(c)
     \/ MergePR_Update(c)
     \/ MergePR_Commit(c)
     \/ MergePR_Reviewers(c)
     \/ \E r \in ReassignRequests : ReassignReviewer_Status(c, r[1], r[2])
     \/ ReassignReviewer_IsAssigned(c)
     \/ ReassignReviewer_TeamAuthor(c)
     \/ ReassignReviewer_Current(c)
     \/ ReassignReviewer_Candidates(c)
     \/ ReassignReviewer_Delete(c)
     \/ ReassignReviewer_Insert(c)
     \/ ReassignReviewer_Commit(c)
     \/ ReassignReviewer_GetPR(c)
     \/ ReassignReviewer_GetReviewers(c)

Fail ==
  \E c \in Procs :
     \/ StmtFail(c)
     \/ \E op \in {"CreateTeam", "GetTeam", "SetUserActive", "GetUserReviews"} :
           StartFail(c, op, None, None)
     \/ \E op \in {"CreatePR", "MergePR", "ReassignReviewer"}, p \in PRs :
           StartFail(c, op, p, None)

\* the store never fails
Spec == Init /\ [][Next]_vars

\* the store may fail up to MaxFailures statements
SpecF == Init /\ [][Next \/ Fail]_vars

TypeOK ==
  /\ teams \subseteq Teams
  /\ DOMAIN users \subseteq Users
  /\ DOMAIN prs \subseteq PRs
  /\ nops \in 0..MaxOps

\* ---------------------------------------------------------------- claims
\* client c returns from a call of op in this step
Returned(c, op) ==
  /\ proc'[c].op = "idle"
  /\ resp'[c].op = op
  /\ \/ proc[c].op = op
     \/ proc[c].op = "idle" /\ nops' = nops + 1

Succeeded(c, op) == resp[c].op = op /\ resp[c].code = OK

Min(a, b) == IF a <= b THEN a ELSE b

\* C1: of two ReassignReviewer calls on the same pull request and the same
\* old reviewer that run concurrently at most one returns success, and the
\* pull request has neither a duplicate nor an extra reviewer assignment.
C1_AtMostOneWinner ==
  \A c, d \in Procs :
     ( /\ c # d
       /\ resp[c].op = "ReassignReviewer" /\ resp[d].op = "ReassignReviewer"
       /\ resp[c].pr = resp[d].pr /\ resp[c].user = resp[d].user
       /\ resp[c].contested /\ resp[d].contested )
     => /\ ~(resp[c].code = OK /\ resp[d].code = OK)
        /\ \A u \in Users : revs[<<resp[c].pr, u>>] <= 1
        /\ Cardinality(getReviewersFromDB(revs, resp[c].pr)) <= MaxReviewers

\* C2: once the stored status of a pull request is MERGED, its reviewer
\* assignments never change again.
C2_MergedReviewersFrozen ==
  [][ \A p \in DOMAIN prs :
        prs[p].status = StatusMerged
        => \A u \in Users : revs'[<<p, u>>] = revs[<<p, u>>] ]_vars

\* C3: every assigned reviewer of a pull request is a member of the team
\* of the pull request's author.
C3_ReviewersInAuthorTeam ==
  \A p \in DOMAIN prs : \A u \in Users :
     revs[<<p, u>>] > 0
     => /\ u \in DOMAIN users
        /\ users[u].team_name = users[prs[p].author_id].team_name

\* C4: the author of a pull request is never one of its assigned reviewers.
C4_AuthorNeverReviewer ==
  \A p \in DOMAIN prs : revs[<<p, prs[p].author_id>>] = 0

\* a reviewer was replaced on a pull request whose author is an active
\* member of the team the replacement was drawn from
C4_Witness ==
  \E c \in Procs :
     /\ Succeeded(c, "ReassignReviewer")
     /\ LET a == prs[resp[c].pr].author_id IN
        /\ users[a].is_active
        /\ users[a].team_name = users[resp[c].body.replaced_by].team_name

\* C5: a (pull request, user) pair appears at most once among the reviewer
\* assignments.
C5_NoDuplicateAssignment ==
  \A k \in PRs \X Users : revs[k] <= 1

\* without any store failure, a contested reassignment was refused at its
\* insert because the pair was already there
C5_Witness ==
  /\ nfail = 0
  /\ \E c \in Procs :
       /\ resp[c].op = "ReassignReviewer"
       /\ resp[c].err = RawErr
       /\ resp[c].contested
       /\ \E d \in Procs \ {c} :
            /\ Succeeded(d, "ReassignReviewer")
            /\ revs[<<resp[c].pr, resp[d].body.replaced_by>>] = 1

\* C6: a pull request is OPEN when it is created, and once it is MERGED it
\* stays MERGED.
C6_StatusMonotonic ==
  [][ \A p \in PRs :
        /\ p \in DOMAIN prs
           => /\ p \in DOMAIN prs'
              /\ prs[p].status = StatusMerged => prs'[p].status = StatusMerged
        /\ (p \notin DOMAIN prs /\ p \in DOMAIN prs')
           => prs'[p].status = StatusOpen ]_vars

\* a CreatePR with the id of a MERGED pull request was answered, and the
\* pull request is still MERGED
C6_Witness ==
  \E c \in Procs :
     /\ resp[c].op = "CreatePR"
     /\ resp[c].present
     /\ prs[resp[c].pr].status = StatusMerged

\* C7: a MergePR made after a first MergePR of the same pull request has
\* completed returns no error and the same status, merge timestamp and
\* reviewer set as the first call.
C7_MergeIdempotent ==
  \A c \in Procs :
     (resp[c].op = "MergePR" /\ resp[c].prior # EmptyBody)
     => /\ resp[c].code = OK
        /\ resp[c].body.status = resp[c].prior.status
        /\ resp[c].body.mergedAt = resp[c].prior.mergedAt
        /\ resp[c].body.assigned_reviewers = resp[c].prior.assigned_reviewers

\* C8: CreatePR assigns exactly min(2, |E|) distinct reviewers, all in E,
\* the active members of the author's team other than the author at the
\* moment the candidates are read.
C8_CreatePRAssignsMinTwo ==
  [][ \A c \in Procs :
        (proc[c].pc = "cp_candidates" /\ proc'[c].pc = "cp_reviewers")
        => LET a == proc[c].user
               E == ActiveTeammates(users, users[a].team_name, a)
               r == proc'[c].reviewers
           IN /\ Len(r) = Min(MaxReviewers, Cardinality(E))
              /\ \A i, j \in 1..Len(r) : i # j => r[i] # r[j]
              /\ Range(r) \subseteq E
              /\ Cardinality(E) <= MaxReviewers => Range(r) = E ]_vars

\* C9: a CreatePR that fails at any step changes neither pull_requests nor
\* pr_reviewers.
C9_CreatePRAllOrNothing ==
  [][ \A c \in Procs :
        (Returned(c, "CreatePR") /\ resp'[c].code # OK)
        => prs' = prs /\ revs' = revs ]_vars

\* a CreatePR failed after it had inserted the pull request and one of its
\* two reviewers, and the pull request is not there
C9_Witness ==
  \E c \in Procs :
     /\ resp[c].op = "CreatePR"
     /\ resp[c].code = InternalError
     /\ resp[c].undone = 2
     /\ resp[c].pr \notin DOMAIN prs
     /\ Cardinality(ActiveTeammates(users, users[resp[c].user].team_name, resp[c].user)) >= 2

\* C10: CreatePR with an id that is already present fails with PR_EXISTS and
\* leaves pull_requests and pr_reviewers unchanged.
C10_DuplicateCreateRejected ==
  [][ \A c \in Procs :
        (Returned(c, "CreatePR") /\ resp'[c].present)
        => /\ resp'[c].code = ErrPRExists
           /\ prs' = prs
           /\ revs' = revs ]_vars

\* a CreatePR with the id of an existing pull request and another author
\* was refused; the pull request still has its author and its reviewers
C10_Witness ==
  \E c \in Procs :
     /\ resp[c].op = "CreatePR"
     /\ resp[c].present
     /\ resp[c].code = ErrPRExists
     /\ resp[c].user # prs[resp[c].pr].author_id
     /\ getReviewersFromDB(revs, resp[c].pr) # {}

\* client c takes a step of the call it is in
Acts(c) ==
  /\ proc[c].op # "idle"
  /\ [proc'[c] EXCEPT !.contested = proc[c].contested] # proc[c]

\* no other client has made a call: the calls of c run one after the other,
\* without any concurrent operation
Alone(c) == \A d \in Procs \ {c} : proc[d].op = "idle" /\ resp[d] = NoResp

\* the reviewers of pull request p in the rows rv
ReviewersIn(rv, p) == {u \in Users : rv[<<p, u>>] > 0}

\* C11: ReassignReviewer on a pull request whose status is MERGED answers
\* PR_MERGED, whether or not the user is an assigned reviewer, and changes
\* no team, user, pull request or reviewer assignment.
C11_MergedRefusesReassign ==
  [][ \A c \in Procs : \A r \in ReassignRequests :
        ( /\ ReassignReviewer_Status(c, r[1], r[2])
          /\ r[1] \in DOMAIN prs
          /\ prs[r[1]].status = StatusMerged )
        => /\ proc'[c].op = "idle"
           /\ resp'[c].code = ErrPRMerged
           /\ db' = db ]_vars

\* a reassignment of a user who is not a reviewer of a MERGED pull request
\* was answered PR_MERGED
C11_Witness ==
  \E c \in Procs :
     /\ resp[c].op = "ReassignReviewer"
     /\ resp[c].code = ErrPRMerged
     /\ prs[resp[c].pr].status = StatusMerged
     /\ revs[<<resp[c].pr, resp[c].user>>] = 0
     /\ \E u \in Users : revs[<<resp[c].pr, u>>] > 0

\* C12: a ReassignReviewer of a user who is not an assigned reviewer of the
\* (existing, not MERGED when the call read it) pull request at the moment the
\* call asks for the assignment answers NOT_ASSIGNED and changes nothing; so
\* does the repetition of a reassignment that has succeeded.
C12_NotAssignedRefused ==
  [][ \A c \in Procs :
        ( /\ proc[c].pc = "rr_assigned"
          /\ Acts(c)
          /\ revs[<<proc[c].pr, proc[c].user>>] = 0 )
        => /\ proc'[c].op = "idle"
           /\ resp'[c].code = ErrNotAssigned
           /\ resp'[c].undone = 0
           /\ db' = db ]_vars

\* a reassignment succeeded and the same reassignment, made again by another
\* client without overlapping it, was answered NOT_ASSIGNED
C12_Witness ==
  \E c, d \in Procs :
     /\ c # d
     /\ Succeeded(d, "ReassignReviewer")
     /\ resp[c].op = "ReassignReviewer"
     /\ resp[c].pr = resp[d].pr /\ resp[c].user = resp[d].user
     /\ ~resp[c].contested
     /\ resp[c].code = ErrNotAssigned
     /\ prs[resp[c].pr].status = StatusOpen

\* C13: the replacement chosen by a successful ReassignReviewer was, when it
\* was chosen, an active member of the old reviewer's team, not the author
\* and not an assigned reviewer of the pull request; so the replacement that
\* a successful call returns is neither the old reviewer nor the author.
C13_ReplacementEligible ==
  \A c \in Procs :
     Succeeded(c, "ReassignReviewer")
     => /\ resp[c].body.replaced_by # resp[c].user
        /\ resp[c].body.replaced_by # prs[resp[c].pr].author_id

\* C14: a ReassignReviewer of an assigned reviewer answers NO_CANDIDATE, and
\* changes nothing, exactly when at the moment of its decision no active
\* member of the old reviewer's team other than the author and the current
\* reviewers of the pull request exists.
C14_NoCandidateExactly ==
  [][ \A c \in Procs :
        (proc[c].pc = "rr_candidates" /\ Acts(c))
        => LET p == proc[c].pr
               old == proc[c].user
               E == {u \in DOMAIN users :
                       /\ users[u].team_name = users[old].team_name
                       /\ users[u].is_active
                       /\ u # prs[p].author_id
                       /\ revs[<<p, u>>] = 0}
           IN /\ (proc'[c].op = "idle" /\ resp'[c].code = ErrNoCandidate) <=> (E = {})
              /\ db' = db ]_vars

\* C15: a successful ReassignReviewer that runs without concurrent
\* operations changes the stored state in one way only: at its commit the
\* reviewer set of its pull request becomes the old set, which holds the old
\* reviewer and not the replacement, minus the old reviewer plus the
\* replacement; the other reviewer rows, the pull requests, the users and the
\* teams stay as they are, no other step of the call changes anything, and the
\* call returns that reviewer set and that replacement.  In the scenario (team
\* core, p1 by A, reviewers B and C) the reassignment of B answers
\* NO_CANDIDATE while D is inactive, and chooses D once D is active, leaving
\* the reviewers {C, D}.
C15_ReassignFrame ==
  [][ \A c \in Procs :
        (Alone(c) /\ proc[c].op = "ReassignReviewer" /\ Acts(c))
        => LET p == proc[c].pr
               old == proc[c].user
               before == ReviewersIn(revs, p)
               after == ReviewersIn(revs', p)
               scenario == /\ p = "p1" /\ old = "B"
                           /\ prs[p].author_id = "A"
                           /\ before = {"B", "C"}
                           /\ \A u \in Users : users[u].team_name = "core"
                           /\ \A u \in {"A", "B", "C"} : users[u].is_active
           IN CASE proc[c].pc = "rr_commit" ->
                     /\ old \in before
                     /\ proc[c].newReviewer \notin before
                     /\ after = (before \ {old}) \cup {proc[c].newReviewer}
                     /\ \A k \in PRs \X Users :
                          (k[1] # p \/ k[2] \notin {old, proc[c].newReviewer})
                          => revs'[k] = revs[k]
                     /\ \A k \in PRs \X Users : revs'[k] <= 1
                     /\ prs' = prs /\ users' = users /\ teams' = teams
                     /\ scenario => after = {"C", "D"}
                [] proc[c].pc = "rr_candidates" ->
                     /\ db' = db
                     /\ scenario
                        => IF users["D"].is_active
                             THEN proc'[c].newReviewer = "D"
                             ELSE resp'[c].code = ErrNoCandidate
                [] proc[c].pc = "rr_getreviewers" ->
                     /\ db' = db
                     /\ resp'[c].code = OK
                     /\ resp'[c].body.replaced_by = proc[c].newReviewer
                     /\ resp'[c].body.assigned_reviewers = before
                     /\ proc[c].newReviewer \in before /\ old \notin before
                [] OTHER -> db' = db ]_vars

\* the calls were made one after the other: a reassignment of B on p1 that
\* succeeded with replacement D, and the reviewers of p1 are C and D
C15_Witness ==
  \E c \in Procs :
     /\ Alone(c)
     /\ Succeeded(c, "ReassignReviewer")
     /\ resp[c].pr = "p1" /\ resp[c].user = "B"
     /\ resp[c].body.replaced_by = "D"
     /\ resp[c].body.assigned_reviewers = {"C", "D"}
     /\ revs[<<"p1", "B">>] = 0 /\ revs[<<"p1", "C">>] = 1 /\ revs[<<"p1", "D">>] = 1

\* C16: SetUserActive changes the is_active flag of its user and nothing
\* else: every reviewer assignment (those of the user included), every pull
\* request, every team and every other column and row of users stay as they
\* are; and the users that CreatePR and ReassignReviewer select are active at
\* the moment of the selection.
C16_SetUserActiveFrame ==
  [][ \A c \in Procs :
        /\ \A r \in SetUserActiveRequests :
             SetUserActive(c, r[1], r[2])
             => /\ prs' = prs /\ revs' = revs /\ teams' = teams
                /\ DOMAIN users' = DOMAIN users
                /\ \A u \in DOMAIN users :
                     users'[u] = IF u = r[1] THEN [users[u] EXCEPT !.is_active = r[2]]
                                 ELSE users[u]
                /\ resp'[c].code = IF r[1] \in DOMAIN users THEN OK ELSE ErrNotFound
        /\ (proc[c].pc = "cp_candidates" /\ Acts(c))
           => \A i \in DOMAIN proc'[c].reviewers : users[proc'[c].reviewers[i]].is_active
        /\ (proc[c].pc = "rr_candidates" /\ Acts(c) /\ proc'[c].op # "idle")
           => users[proc'[c].newReviewer].is_active ]_vars

\* C was deactivated and is still a reviewer of p1, and a CreatePR by A, whose
\* other teammates are B and C, was given B alone
C16_Witness ==
  \E c, d \in Procs :
     /\ resp[c].op = "SetUserActive" /\ resp[c].code = OK /\ resp[c].user = "C"
     /\ ~users["C"].is_active
     /\ revs[<<"p1", "C">>] = 1
     /\ resp[d].op = "CreatePR" /\ resp[d].code = OK /\ resp[d].user = "A"
     /\ resp[d].body.assigned_reviewers = {"B"}
     /\ users["C"].team_name = users["A"].team_name

\* C17: a CreatePR whose id was not present and whose author is not a known
\* user when the call looks the author up answers NOT_FOUND and creates no
\* pull request and no reviewer assignment.
C17_UnknownAuthorRefused ==
  [][ \A c \in Procs :
        ( /\ proc[c].pc = "cp_team"
          /\ Acts(c)
          /\ proc[c].user \notin DOMAIN users )
        => /\ proc'[c].op = "idle"
           /\ resp'[c].code = ErrNotFound
           /\ resp'[c].undone = 0
           /\ db' = db ]_vars

\* users exist, a CreatePR by a user who is none of them was answered
\* NOT_FOUND, and its pull request is not there
C17_Witness ==
  \E c \in Procs :
     /\ resp[c].op = "CreatePR"
     /\ resp[c].code = ErrNotFound
     /\ ~resp[c].present
     /\ DOMAIN users # {}
     /\ resp[c].user \notin DOMAIN users
     /\ resp[c].pr \notin DOMAIN prs
     /\ \A u \in Users : revs[<<resp[c].pr, u>>] = 0

\* C18: GetUserReviews answers no error and the list of exactly the pull
\* requests, OPEN or MERGED, of which the user is an assigned reviewer in the
\* stored state, each once, with its stored name, author and status, a pull
\* request created later before one created earlier; the list is empty for a
\* user without assignments and for an unknown user; nothing is changed.
C18_UserReviewsExact ==
  [][ \A c \in Procs : \A u \in GetUserReviewsRequests :
        GetUserReviews(c, u)
        => LET l == resp'[c].body.list
               M == {p \in DOMAIN prs : revs[<<p, u>>] > 0}
           IN /\ resp'[c].code = OK
              /\ {l[i].pull_request_id : i \in DOMAIN l} = M
              /\ Len(l) = Cardinality(M)
              /\ \A i \in DOMAIN l :
                   LET row == prs[l[i].pull_request_id]
                   IN /\ l[i].pull_request_name = row.pull_request_name
                      /\ l[i].author_id = row.author_id
                      /\ l[i].status = row.status
              /\ \A i, j \in DOMAIN l :
                   i < j => prs[l[i].pull_request_id].created_at.tick
                              >= prs[l[j].pull_request_id].created_at.tick
              /\ db' = db ]_vars

\* a user reviews two pull requests and was answered both, the one created
\* later first
C18_Witness ==
  \E c \in Procs :
     /\ Succeeded(c, "GetUserReviews")
     /\ Len(resp[c].body.list) = 2
     /\ LET first == resp[c].body.list[1].pull_request_id
            second == resp[c].body.list[2].pull_request_id
        IN /\ first \in DOMAIN prs /\ second \in DOMAIN prs
           /\ prs[first].created_at.tick > prs[second].created_at.tick
           /\ revs[<<first, resp[c].user>>] = 1 /\ revs[<<second, resp[c].user>>] = 1

C20_StoreFailureIsInternal ==
  [][ \A c \in Procs :
        ( /\ \/ StmtFail(c)
             \/ \E op \in {"SetUserActive", "GetTeam"} : StartFail(c, op, None, None)
             \/ \E op \in {"CreatePR", "MergePR", "ReassignReviewer"}, p \in PRs :
                   StartFail(c, op, p, None)
          /\ resp'[c].op \in {"SetUserActive", "CreatePR", "MergePR",
                              "ReassignReviewer", "GetTeam"} )
        => resp'[c].code \notin {ErrNotFound, ErrPRExists, ErrPRMerged,
                                 ErrNotAssigned, ErrNoCandidate, ErrTeamExists} ]_vars

\* C21: once a pull request has a stored merge timestamp, that timestamp
\* never changes, under any interleaving of MergePR calls; and a MergePR that
\* succeeds returns the stored merge timestamp (compared at the resolution of
\* the column).
C21_MergeTimestampStable ==
  [][ /\ \A p \in DOMAIN prs :
           prs[p].merged_at # NullTime => prs'[p].merged_at = prs[p].merged_at
      /\ \A c \in Procs :
           ( /\ proc[c].op = "MergePR" /\ Acts(c)
             /\ proc'[c].op = "idle" /\ resp'[c].code = OK )
           => ToDB(resp'[c].body.mergedAt) = prs[proc[c].pr].merged_at ]_vars

\* C22: in every reachable state every pull request has at most 2 assigned
\* reviewers, whatever the sequence and the interleaving of the operations.
C22_AtMostTwoReviewers ==
  \A p \in DOMAIN prs : Cardinality(ReviewersIn(revs, p)) <= MaxReviewers

\* C23: a ReassignReviewer that succeeded with a replacement other than the
\* old reviewer returned a pull request whose reviewer set contains the
\* replacement and does not contain the old reviewer, whatever other calls
\* committed on the same pull request between its commit and its return.
C23_ReturnedSetIsCommittedSet ==
  \A c \in Procs :
     ( /\ Succeeded(c, "ReassignReviewer")
       /\ resp[c].body.replaced_by # resp[c].user )
     => /\ resp[c].body.replaced_by \in resp[c].body.assigned_reviewers
        /\ resp[c].user \notin resp[c].body.assigned_reviewers

\* C24: in every reachable state a pull request has a merge timestamp if and
\* only if its status is MERGED; the pull request that a successful CreatePR
\* returns is OPEN and has no merge timestamp.
C24_MergedIffTimestamp ==
  /\ \A p \in DOMAIN prs :
       (prs[p].merged_at # NullTime) <=> (prs[p].status = StatusMerged)
  /\ \A c \in Procs :
       Succeeded(c, "CreatePR")
       => /\ resp[c].body.status = StatusOpen
          /\ resp[c].body.mergedAt = NullTime

\* a pull request was created by a CreatePR of this run, without a merge
\* timestamp, and then merged by a MergePR: it is MERGED and has one
C24_Witness ==
  \E c, d \in Procs :
     /\ Succeeded(c, "CreatePR")
     /\ resp[c].body.mergedAt = NullTime
     /\ Succeeded(d, "MergePR")
     /\ resp[d].pr = resp[c].pr
     /\ prs[resp[c].pr].status = StatusMerged
     /\ prs[resp[c].pr].merged_at # NullTime
     /\ prs[resp[c].pr].merged_at = ToDB(resp[d].body.mergedAt)
====
